---- MODULE Spec2Model ----
(***************************************************************************)
(* Model of the proletarian worker pool (src/pool.go): the admission queue *)
(* (inputQ), the forwarder (lobby), the dispatch queue (workersQ), the     *)
(* workers with their retry / error routing, the error-output queue        *)
(* (errCh) and the lifecycle calls Run, Queue, Shutdown, Cancel, Wait and  *)
(* ErroredTask.                                                            *)
(*                                                                         *)
(* Every goroutine is a process with a program counter.  A send on an      *)
(* unbuffered channel is one joint step of the sender and a receiver that  *)
(* is blocked on the same channel.  A panic (close of a closed or nil      *)
(* channel, send on a closed channel) stops the whole program.  Reads and  *)
(* writes of the unsynchronised fields p.inputQ and p.workersQ are single  *)
(* steps that interleave freely.                                           *)
(***************************************************************************)
EXTENDS Integers, Sequences, FiniteSets, TLC

\* ------------------------------------------------------------------ bounds
NumTasks == 2
MaxRetries == 2
MaxSize == 2
MaxLobby == 1
\* largest LobbySize of the pools of SpecOrder
MaxLobbyOrder == 2

\* runtime.GOMAXPROCS(0) of the modelled build
GoMaxProcs == 1
\* plan value of a task whose work function fails on every attempt
AlwaysFails == -1
\* plan value of a task whose work function may return anything on any attempt
Opaque == -2

Tasks == 1..NumTasks
NoTask == 0
Callers == {"A", "B"}

VARIABLES
    cfg,          \* PoolConfig after NewPool's normalisation
    plan,         \* per task: failures before the work function succeeds
    running,      \* Run has been called
    inputBuf,     \* buffer of the channel made for p.inputQ
    inputClosed,  \* that channel is closed
    inputQNil,    \* the field p.inputQ is nil
    workersClosed,\* the channel made for p.workersQ is closed
    workersQNil,  \* the field p.workersQ is nil
    errClosed,    \* p.errCh is closed
    inputLock,    \* p.inputLock is held
    inflightWG,   \* counter of p.inflightWG
    inFlight,     \* p.inFlight
    inQ,          \* p.inQ
    inWork,       \* p.inWork
    cancelled,    \* p.ctx is done
    once,         \* p.shutdownOnce: "fresh", "running" or "done"
    loc,          \* per task: where the task is
    hdr,          \* per task: its TaskHeader [retries, err]
    execs,        \* per task: completed calls of the work function
    delivered,    \* per task: times it was received from p.errCh
    lobbyPc, lobbyTask,
    wpc, wtask,   \* per worker
    qpc, qtask,   \* the Queue call of caller A
    spc,          \* per caller: position in Shutdown
    sdRuns,       \* times the body of Shutdown was entered
    waitPc,       \* the Wait call
    consPc,       \* the ErroredTask loop
    panicked      \* "none", or the run-time panic that stopped the program

vars == <<cfg, plan, running, inputBuf, inputClosed, inputQNil, workersClosed,
          workersQNil, errClosed, inputLock, inflightWG, inFlight, inQ, inWork,
          cancelled, once, loc, hdr, execs, delivered, lobbyPc, lobbyTask,
          wpc, wtask, qpc, qtask, spc, sdRuns, waitPc, consPc, panicked>>

chanVars == <<inputBuf, inputClosed, inputQNil, workersClosed, workersQNil, errClosed>>
cntVars == <<inflightWG, inFlight, inQ, inWork>>
taskVars == <<loc, hdr, execs, delivered>>
lobbyVars == <<lobbyPc, lobbyTask>>
workerVars == <<wpc, wtask>>
queueVars == <<qpc, qtask>>
sdVars == <<spc, once, sdRuns>>
constVars == <<cfg, plan>>

\* ------------------------------------------------------------- TaskHeader
SetError(h, err) ==
    [retries |-> IF err THEN h.retries + 1 ELSE h.retries, err |-> err]

ErrorCount(h) == h.retries

\* ---------------------------------------------------------------- NewPool
SizeCeiling == GoMaxProcs * 32

NormSize(s) == IF s < 1 THEN 1 ELSE IF s > SizeCeiling THEN SizeCeiling ELSE s

NormRetries(r) == IF r < -1 THEN -1 ELSE r

NewPool(lobby, size, retries) ==
    [LobbySize |-> lobby, Size |-> NormSize(size), Retries |-> NormRetries(retries)]

Workers == 1..cfg.Size

\* p.f: whether a call of the work function on task t may return an error
\* (TRUE) or nil (FALSE).  A planned task fails its first plan[t] attempts, or
\* all of them; an opaque one may do either at every attempt.
FuncResults(t) ==
    IF plan[t] = Opaque THEN BOOLEAN
    ELSE {plan[t] = AlwaysFails \/ execs[t] < plan[t]}

Plans == {AlwaysFails} \cup (0..MaxRetries)

InitPool(c, p) ==
    /\ cfg = c
    /\ plan = p
    /\ running = FALSE
    /\ inputBuf = <<>>
    /\ inputClosed = FALSE
    /\ inputQNil = FALSE
    /\ workersClosed = FALSE
    /\ workersQNil = FALSE
    /\ errClosed = FALSE
    /\ inputLock = FALSE
    /\ inflightWG = 0
    /\ inFlight = 0
    /\ inQ = 0
    /\ inWork = 0
    /\ cancelled = FALSE
    /\ once = "fresh"
    /\ loc = [t \in Tasks |-> "new"]
    /\ hdr = [t \in Tasks |-> [retries |-> 0, err |-> FALSE]]
    /\ execs = [t \in Tasks |-> 0]
    /\ delivered = [t \in Tasks |-> 0]
    /\ lobbyPc = "start"
    /\ lobbyTask = NoTask
    /\ wpc = [w \in 1..c.Size |-> "idle"]
    /\ wtask = [w \in 1..c.Size |-> NoTask]
    /\ qpc = "idle"
    /\ qtask = NoTask
    /\ spc = [c2 \in Callers |-> "idle"]
    /\ sdRuns = 0
    /\ waitPc = "idle"
    /\ consPc = "recv"
    /\ panicked = "none"

Init ==
    \E lobby \in 0..MaxLobby, size \in 0..MaxSize, retries \in -2..MaxRetries :
        InitPool(NewPool(lobby, size, retries), [t \in Tasks |-> Opaque])

\* -------------------------------------------------------------------- Run
\* faulty variant of Run: the input lock is not taken
RunNoLock ==
    /\ panicked = "none" /\ ~running
    /\ running' = TRUE
    /\ inputLock' = FALSE
    /\ waitPc' = "lock"
    /\ UNCHANGED <<constVars, chanVars, cntVars, cancelled, taskVars, lobbyVars,
                   workerVars, queueVars, sdVars, consPc, panicked>>

Run ==
    /\ panicked = "none" /\ ~running
    /\ running' = TRUE
    /\ inputLock' = TRUE
    /\ waitPc' = "lock"
    /\ UNCHANGED <<constVars, chanVars, cntVars, cancelled, taskVars, lobbyVars,
                   workerVars, queueVars, sdVars, consPc, panicked>>

Live == running /\ panicked = "none"

\* Workers are interchangeable (line 214 never uses i): a send on p.workersQ is
\* taken by the lowest-numbered worker blocked in its receive (line 217).
Receiver(w) == wpc[w] = "idle" /\ \A v \in Workers : v < w => wpc[v] /= "idle"

\* ------------------------------------------------------------------ lobby
LobbyStart ==
    /\ Live /\ lobbyPc = "start"
    /\ lobbyPc' = IF inputQNil THEN "stuck" ELSE "recv"
    /\ UNCHANGED <<constVars, running, chanVars, inputLock, cntVars, cancelled,
                   taskVars, lobbyTask, workerVars, queueVars, sdVars, waitPc,
                   consPc, panicked>>

\* faulty variant of the receive: the task is read but left in the buffer
DequeuePeek(buf) == buf

\* line 152: a receive takes the oldest task out of the channel's buffer
Dequeue(buf) == Tail(buf)

\* faulty variant of the receive: the newest task of the buffer is taken
LobbyRecvNewest ==
    /\ Live /\ lobbyPc = "recv" /\ inputBuf /= <<>>
    /\ lobbyTask' = inputBuf[Len(inputBuf)]
    /\ inputBuf' = SubSeq(inputBuf, 1, Len(inputBuf) - 1)
    /\ loc' = [loc EXCEPT ![inputBuf[Len(inputBuf)]] = "lobby"]
    /\ inQ' = inQ - 1
    /\ lobbyPc' = "send"
    /\ UNCHANGED <<constVars, running, inputClosed, inputQNil, workersClosed,
                   workersQNil, errClosed, inputLock, inflightWG, inFlight, inWork,
                   cancelled, hdr, execs, delivered, workerVars, queueVars, sdVars,
                   waitPc, consPc, panicked>>

LobbyRecv ==
    /\ Live /\ lobbyPc = "recv" /\ inputBuf /= <<>>
    /\ lobbyTask' = Head(inputBuf)
    /\ inputBuf' = Dequeue(inputBuf)
    /\ loc' = [loc EXCEPT ![Head(inputBuf)] = "lobby"]
    /\ inQ' = inQ - 1
    /\ lobbyPc' = "send"
    /\ UNCHANGED <<constVars, running, inputClosed, inputQNil, workersClosed,
                   workersQNil, errClosed, inputLock, inflightWG, inFlight, inWork,
                   cancelled, hdr, execs, delivered, workerVars, queueVars, sdVars,
                   waitPc, consPc, panicked>>

LobbySend(w) ==
    /\ Live /\ lobbyPc = "send"
    /\ ~workersQNil /\ ~workersClosed
    /\ Receiver(w)
    /\ wpc' = [wpc EXCEPT ![w] = "exec"]
    /\ wtask' = [wtask EXCEPT ![w] = lobbyTask]
    /\ loc' = [loc EXCEPT ![lobbyTask] = "exec"]
    /\ inWork' = inWork + 1
    /\ inQ' = inQ - 1
    /\ lobbyPc' = "recv"
    /\ lobbyTask' = NoTask
    /\ UNCHANGED <<constVars, running, chanVars, inputLock, inflightWG, inFlight,
                   cancelled, hdr, execs, delivered, queueVars, sdVars, waitPc,
                   consPc, panicked>>

LobbyExit ==
    /\ Live /\ lobbyPc = "recv" /\ inputBuf = <<>> /\ inputClosed
    /\ inputQNil' = TRUE
    /\ inputLock' = FALSE
    /\ lobbyPc' = "done"
    /\ UNCHANGED <<constVars, running, inputBuf, inputClosed, workersClosed,
                   workersQNil, errClosed, cntVars, cancelled, taskVars, lobbyTask,
                   workerVars, queueVars, sdVars, waitPc, consPc, panicked>>

\* ----------------------------------------------------------------- worker
WorkerExit(w) ==
    /\ Live /\ wpc[w] = "idle" /\ workersClosed
    /\ wpc' = [wpc EXCEPT ![w] = "exited"]
    /\ UNCHANGED <<constVars, running, chanVars, inputLock, cntVars, cancelled,
                   taskVars, lobbyVars, wtask, queueVars, sdVars, waitPc, consPc,
                   panicked>>

\* faulty variants of the retry ceiling test: one attempt late, one attempt early
RetriesExhaustedLate(h) == ErrorCount(h) > cfg.Retries

RetriesExhaustedEarly(h) == ErrorCount(h) + 1 >= cfg.Retries

\* faulty variant of the retry ceiling test: a ceiling of 0 is no ceiling
RetriesExhaustedPositive(h) == cfg.Retries > 0 /\ ErrorCount(h) >= cfg.Retries

\* line 226: the retry ceiling test
RetriesExhausted(h) == ErrorCount(h) >= cfg.Retries

\* faulty variant of the routing: the cancellation signal is not looked at
RouteIgnoringCancel(h, err) ==
    IF ~err THEN "done"
    ELSE IF RetriesExhausted(h) THEN "errwait"
    ELSE "retry"

\* lines 222-249: where a task goes once the work function has returned
Route(h, err) ==
    IF ~err THEN "done"
    ELSE IF cancelled THEN "abandoned"
    ELSE IF RetriesExhausted(h) THEN "errwait"
    ELSE "retry"

\* faulty variant of the in-flight decrement: a failed execution is counted
\* as finished too
DoneOnFinishAlways(h, err) == 1

\* faulty variant of the in-flight decrement: a failure seen after Cancel is
\* counted as finished
DoneOnFinishOrCancel(h, err) == IF ~err \/ cancelled THEN 1 ELSE 0

\* lines 247-248: the in-flight decrement of a finished execution
DoneOnFinish(h, err) == IF ~err THEN 1 ELSE 0

\* faulty variant of the worker: it does the retry or error handoff itself and
\* waits for it to be accepted
WorkerFinishHeld(w) ==
    /\ Live /\ wpc[w] = "exec"
    /\ \E err \in FuncResults(wtask[w]) :
         LET t == wtask[w]
             h == SetError(hdr[t], err)
         IN /\ execs' = [execs EXCEPT ![t] = @ + 1]
            /\ hdr' = [hdr EXCEPT ![t] = h]
            /\ loc' = [loc EXCEPT ![t] = Route(h, err)]
            /\ inflightWG' = inflightWG - DoneOnFinish(h, err)
            /\ inFlight' = inFlight - DoneOnFinish(h, err)
            /\ wpc' = [wpc EXCEPT ![w] = IF Route(h, err) \in {"retry", "errwait"}
                                         THEN "handoff" ELSE "idle"]
    /\ inWork' = inWork - 1
    /\ wtask' = [wtask EXCEPT ![w] = NoTask]
    /\ UNCHANGED <<constVars, running, chanVars, inputLock, inQ, cancelled,
                   delivered, lobbyVars, queueVars, sdVars, waitPc, consPc,
                   panicked>>

WorkerFinish(w) ==
    /\ Live /\ wpc[w] = "exec"
    /\ \E err \in FuncResults(wtask[w]) :
         LET t == wtask[w]
             h == SetError(hdr[t], err)
         IN /\ execs' = [execs EXCEPT ![t] = @ + 1]
            /\ hdr' = [hdr EXCEPT ![t] = h]
            /\ loc' = [loc EXCEPT ![t] = Route(h, err)]
            /\ inflightWG' = inflightWG - DoneOnFinish(h, err)
            /\ inFlight' = inFlight - DoneOnFinish(h, err)
    /\ inWork' = inWork - 1
    /\ wpc' = [wpc EXCEPT ![w] = "idle"]
    /\ wtask' = [wtask EXCEPT ![w] = NoTask]
    /\ UNCHANGED <<constVars, running, chanVars, inputLock, inQ, cancelled,
                   delivered, lobbyVars, queueVars, sdVars, waitPc, consPc,
                   panicked>>

\* lines 237-243: the retry goroutine's send is taken by a worker
RetrySend(t, w) ==
    /\ Live /\ loc[t] = "retry"
    /\ ~workersQNil /\ ~workersClosed
    /\ Receiver(w)
    /\ wpc' = [wpc EXCEPT ![w] = "exec"]
    /\ wtask' = [wtask EXCEPT ![w] = t]
    /\ loc' = [loc EXCEPT ![t] = "exec"]
    /\ inWork' = inWork + 1
    /\ inQ' = (inQ - 1) + 1
    /\ UNCHANGED <<constVars, running, chanVars, inputLock, inflightWG, inFlight,
                   cancelled, hdr, execs, delivered, lobbyVars, queueVars, sdVars,
                   waitPc, consPc, panicked>>

\* a retry or error handoff goroutine takes the ctx.Done() case
HandoffCancel(t) ==
    /\ Live /\ loc[t] \in {"retry", "errwait"}
    /\ cancelled
    /\ loc' = [loc EXCEPT ![t] = "abandoned"]
    /\ UNCHANGED <<constVars, running, chanVars, inputLock, cntVars, cancelled,
                   hdr, execs, delivered, lobbyVars, workerVars, queueVars, sdVars,
                   waitPc, consPc, panicked>>

\* lines 227-234 with line 203: the error goroutine's send is taken by ErroredTask
ErrDeliver(t) ==
    /\ Live /\ loc[t] = "errwait"
    /\ consPc = "recv" /\ ~errClosed
    /\ loc' = [loc EXCEPT ![t] = "errored"]
    /\ delivered' = [delivered EXCEPT ![t] = @ + 1]
    /\ inflightWG' = inflightWG - 1
    /\ inFlight' = inFlight - 1
    /\ UNCHANGED <<constVars, running, chanVars, inputLock, inQ, inWork, cancelled,
                   hdr, execs, lobbyVars, workerVars, queueVars, sdVars, waitPc,
                   consPc, panicked>>

\* line 203 on the closed channel: the no-task value
ErroredTaskNil ==
    /\ Live /\ consPc = "recv" /\ errClosed
    /\ consPc' = "end"
    /\ UNCHANGED <<constVars, running, chanVars, inputLock, cntVars, cancelled,
                   taskVars, lobbyVars, workerVars, queueVars, sdVars, waitPc,
                   panicked>>

Cancel ==
    /\ Live /\ ~cancelled
    /\ cancelled' = TRUE
    /\ UNCHANGED <<constVars, running, chanVars, inputLock, cntVars, taskVars,
                   lobbyVars, workerVars, queueVars, sdVars, waitPc, consPc,
                   panicked>>

\* ------------------------------------------------------------------ Queue
\* the task a Queue call of caller A submits: tasks are queued once, in order
NextTask == CHOOSE t \in Tasks : loc[t] = "new" /\ \A u \in Tasks : loc[u] = "new" => t <= u

\* line 175: the test of p.inputQ
QueueAdmits == ~inputQNil

QueueCall ==
    /\ Live /\ qpc = "idle" /\ spc["A"] \in {"idle", "done"}
    /\ \E t \in Tasks : loc[t] = "new"
    /\ IF QueueAdmits
       THEN /\ qpc' = "count"
            /\ qtask' = NextTask
            /\ loc' = [loc EXCEPT ![NextTask] = "queue"]
       ELSE /\ loc' = [loc EXCEPT ![NextTask] = "dropped"]
            /\ UNCHANGED queueVars
    /\ UNCHANGED <<constVars, running, chanVars, inputLock, cntVars, cancelled,
                   hdr, execs, delivered, lobbyVars, workerVars, sdVars, waitPc,
                   consPc, panicked>>

\* lines 176-178
QueueCount ==
    /\ Live /\ qpc = "count"
    /\ inQ' = inQ + 1
    /\ inFlight' = inFlight + 1
    /\ inflightWG' = inflightWG + 1
    /\ qpc' = "send"
    /\ UNCHANGED <<constVars, running, chanVars, inputLock, inWork, cancelled,
                   taskVars, lobbyVars, workerVars, qtask, sdVars, waitPc, consPc,
                   panicked>>

\* line 179 on an open channel with room in its buffer
QueueSendBuf ==
    /\ Live /\ qpc = "send"
    /\ ~inputQNil /\ ~inputClosed
    /\ Len(inputBuf) < cfg.LobbySize
    /\ inputBuf' = Append(inputBuf, qtask)
    /\ loc' = [loc EXCEPT ![qtask] = "input"]
    /\ qpc' = "idle"
    /\ qtask' = NoTask
    /\ UNCHANGED <<constVars, running, inputClosed, inputQNil, workersClosed,
                   workersQNil, errClosed, inputLock, cntVars, cancelled, hdr, execs,
                   delivered, lobbyVars, workerVars, sdVars, waitPc, consPc,
                   panicked>>

\* line 179 taken directly by the forwarder blocked in its receive (line 152)
QueueSendDirect ==
    /\ Live /\ qpc = "send"
    /\ ~inputQNil /\ ~inputClosed
    /\ lobbyPc = "recv" /\ inputBuf = <<>>
    /\ lobbyTask' = qtask
    /\ lobbyPc' = "send"
    /\ inQ' = inQ - 1
    /\ loc' = [loc EXCEPT ![qtask] = "lobby"]
    /\ qpc' = "idle"
    /\ qtask' = NoTask
    /\ UNCHANGED <<constVars, running, chanVars, inputLock, inflightWG, inFlight,
                   inWork, cancelled, hdr, execs, delivered, workerVars, sdVars,
                   waitPc, consPc, panicked>>

\* line 179 after Shutdown's close (line 186): a send on the closed channel
\* panics.  Once line 187 has cleared the field the unsynchronised read gives
\* either the old channel (panic) or nil (the send blocks for ever).
QueueSendClosed ==
    /\ Live /\ qpc = "send"
    /\ inputClosed
    /\ \/ /\ panicked' = "send on closed channel"
          /\ UNCHANGED qpc
       \/ /\ inputQNil
          /\ qpc' = "blocked"
          /\ UNCHANGED panicked
    /\ UNCHANGED <<constVars, running, chanVars, inputLock, cntVars, cancelled,
                   taskVars, lobbyVars, workerVars, qtask, sdVars, waitPc, consPc>>

\* --------------------------------------------------------------- Shutdown
\* the run-time panic of close(ch) on a nil or an already closed channel
ClosePanic(isNil) == IF isNil THEN "close of nil channel" ELSE "close of closed channel"

\* faulty variant of the Once: every caller runs the body
OnceAdmitsAlways == TRUE

\* line 185: sync.Once lets one caller run the body
OnceAdmits == once = "fresh"

ShutdownCall(c) ==
    /\ Live /\ spc[c] = "idle"
    /\ c = "A" => qpc = "idle"
    /\ IF OnceAdmits
       THEN /\ spc' = [spc EXCEPT ![c] = "closeInput"]
            /\ once' = "running"
            /\ sdRuns' = sdRuns + 1
       ELSE /\ spc' = [spc EXCEPT ![c] = "blocked"]
            /\ UNCHANGED <<once, sdRuns>>
    /\ UNCHANGED <<constVars, running, chanVars, inputLock, cntVars, cancelled,
                   taskVars, lobbyVars, workerVars, queueVars, waitPc, consPc,
                   panicked>>

\* line 185: the other callers of Do return once the body has returned
ShutdownJoin(c) ==
    /\ Live /\ spc[c] = "blocked" /\ once = "done"
    /\ spc' = [spc EXCEPT ![c] = "done"]
    /\ UNCHANGED <<constVars, running, chanVars, inputLock, cntVars, cancelled,
                   taskVars, lobbyVars, workerVars, queueVars, once, sdRuns, waitPc,
                   consPc, panicked>>

\* line 186
SdCloseInput(c) ==
    /\ Live /\ spc[c] = "closeInput"
    /\ IF inputQNil \/ inputClosed
       THEN /\ panicked' = ClosePanic(inputQNil)
            /\ UNCHANGED <<inputClosed, spc>>
       ELSE /\ inputClosed' = TRUE
            /\ spc' = [spc EXCEPT ![c] = "nilInput"]
            /\ UNCHANGED panicked
    /\ UNCHANGED <<constVars, running, inputBuf, inputQNil, workersClosed,
                   workersQNil, errClosed, inputLock, cntVars, cancelled, taskVars,
                   lobbyVars, workerVars, queueVars, once, sdRuns, waitPc, consPc>>

\* line 187
SdNilInput(c) ==
    /\ Live /\ spc[c] = "nilInput"
    /\ inputQNil' = TRUE
    /\ spc' = [spc EXCEPT ![c] = "wait"]
    /\ UNCHANGED <<constVars, running, inputBuf, inputClosed, workersClosed,
                   workersQNil, errClosed, inputLock, cntVars, cancelled, taskVars,
                   lobbyVars, workerVars, queueVars, once, sdRuns, waitPc, consPc,
                   panicked>>

\* faulty variant of the drain wait: it does not wait
DrainedAlways == TRUE

\* line 189: sync.WaitGroup.Wait returns when the counter is zero
Drained == inflightWG = 0

SdWait(c) ==
    /\ Live /\ spc[c] = "wait"
    /\ Drained
    /\ spc' = [spc EXCEPT ![c] = "closeWorkers"]
    /\ UNCHANGED <<constVars, running, chanVars, inputLock, cntVars, cancelled,
                   taskVars, lobbyVars, workerVars, queueVars, once, sdRuns, waitPc,
                   consPc, panicked>>

\* lines 190-191: close(p.workersQ) and the clearing of the field; nothing reads
\* the field between the two
SdCloseWorkers(c) ==
    /\ Live /\ spc[c] = "closeWorkers"
    /\ IF workersQNil \/ workersClosed
       THEN /\ panicked' = ClosePanic(workersQNil)
            /\ UNCHANGED <<workersClosed, workersQNil, spc>>
       ELSE /\ workersClosed' = TRUE
            /\ workersQNil' = TRUE
            /\ spc' = [spc EXCEPT ![c] = "closeErr"]
            /\ UNCHANGED panicked
    /\ UNCHANGED <<constVars, running, inputBuf, inputClosed, inputQNil,
                   errClosed, inputLock, cntVars, cancelled, taskVars,
                   lobbyVars, workerVars, queueVars, once, sdRuns, waitPc, consPc>>

\* lines 192-193: close(p.errCh), then Do marks the Once done and returns
SdCloseErr(c) ==
    /\ Live /\ spc[c] = "closeErr"
    /\ IF errClosed
       THEN /\ panicked' = ClosePanic(FALSE)
            /\ UNCHANGED <<errClosed, spc, once>>
       ELSE /\ errClosed' = TRUE
            /\ spc' = [spc EXCEPT ![c] = "done"]
            /\ once' = "done"
            /\ UNCHANGED panicked
    /\ UNCHANGED <<constVars, running, inputBuf, inputClosed, inputQNil,
                   workersClosed, workersQNil, inputLock, cntVars, cancelled,
                   taskVars, lobbyVars, workerVars, queueVars, sdRuns, waitPc,
                   consPc>>

\* ------------------------------------------------------------------- Wait
\* line 208
WaitLock ==
    /\ Live /\ waitPc = "lock"
    /\ ~inputLock
    /\ inputLock' = TRUE
    /\ waitPc' = "wg"
    /\ UNCHANGED <<constVars, running, chanVars, cntVars, cancelled, taskVars,
                   lobbyVars, workerVars, queueVars, sdVars, consPc, panicked>>

\* lines 211 and 209
WaitReturn ==
    /\ Live /\ waitPc = "wg"
    /\ Drained
    /\ inputLock' = FALSE
    /\ waitPc' = "done"
    /\ UNCHANGED <<constVars, running, chanVars, cntVars, cancelled, taskVars,
                   lobbyVars, workerVars, queueVars, sdVars, consPc, panicked>>

\* --------------------------------------------------------- specifications
\* the pipeline started by Run and one client, A, that queues the tasks in
\* order and may call Shutdown between two Queue calls
Pipeline ==
    \/ Run
    \/ LobbyStart
    \/ LobbyRecv
    \/ \E w \in Workers : LobbySend(w)
    \/ LobbyExit
    \/ \E w \in Workers : WorkerExit(w)
    \/ \E w \in Workers : WorkerFinish(w)
    \/ \E t \in Tasks, w \in Workers : RetrySend(t, w)
    \/ \E t \in Tasks : ErrDeliver(t)
    \/ ErroredTaskNil
    \/ QueueCall
    \/ QueueCount
    \/ QueueSendBuf
    \/ QueueSendDirect
    \/ ShutdownCall("A")
    \/ \E c \in Callers : SdCloseInput(c)
    \/ \E c \in Callers : SdNilInput(c)
    \/ \E c \in Callers : SdWait(c)
    \/ \E c \in Callers : SdCloseWorkers(c)
    \/ \E c \in Callers : SdCloseErr(c)

\* Spec: the pipeline with Cancel and a Wait call, any work function
Next ==
    \/ Pipeline
    \/ Cancel
    \/ \E t \in Tasks : HandoffCancel(t)
    \/ WaitLock
    \/ WaitReturn

Spec == Init /\ [][Next]_vars

\* SpecConc: a second client, B, calls Shutdown at any moment, also while A is
\* inside Queue or Shutdown
NextConc ==
    \/ Pipeline
    \/ QueueSendClosed
    \/ ShutdownCall("B")
    \/ \E c \in Callers : ShutdownJoin(c)

SpecConc == Init /\ [][NextConc]_vars

\* SpecPlan: no Cancel; one task has a planned work function (it fails on
\* its first K attempts, or on all of them), the others any
InitPlan ==
    \E lobby \in 0..MaxLobby, size \in 0..MaxSize, retries \in -2..MaxRetries :
        \E t0 \in Tasks, p \in Plans :
            InitPool(NewPool(lobby, size, retries),
                     [t \in Tasks |-> IF t = t0 THEN p ELSE Opaque])

SpecPlan == InitPlan /\ [][Pipeline]_vars

\* SpecWait: the pipeline and a Wait call, no Cancel.  The Go scheduler runs
\* every goroutine that can take a step, and a consumer keeps calling
\* ErroredTask; what the client A calls next, and when, is its own choice.
NextWait ==
    \/ Pipeline
    \/ WaitLock
    \/ WaitReturn

Scheduling ==
    /\ WF_vars(LobbyStart)
    /\ WF_vars(LobbyRecv)
    /\ WF_vars(\E w \in Workers : LobbySend(w))
    /\ WF_vars(LobbyExit)
    /\ WF_vars(\E w \in Workers : WorkerExit(w))
    /\ WF_vars(\E w \in Workers : WorkerFinish(w))
    /\ WF_vars(\E t \in Tasks, w \in Workers : RetrySend(t, w))
    /\ WF_vars(\E t \in Tasks : ErrDeliver(t))
    /\ WF_vars(ErroredTaskNil)
    /\ WF_vars(QueueCount)
    /\ WF_vars(QueueSendBuf)
    /\ WF_vars(QueueSendDirect)
    /\ WF_vars(\E c \in Callers : SdCloseInput(c))
    /\ WF_vars(\E c \in Callers : SdNilInput(c))
    /\ WF_vars(\E c \in Callers : SdWait(c))
    /\ WF_vars(\E c \in Callers : SdCloseWorkers(c))
    /\ WF_vars(\E c \in Callers : SdCloseErr(c))
    /\ WF_vars(WaitLock)
    /\ WF_vars(WaitReturn)

SpecWait == Init /\ [][NextWait]_vars /\ Scheduling

\* SpecHandoff: SpecWait without any assumption on the consumer: the
\* goroutines of the pool are scheduled, ErroredTask is called when and if the
\* client chooses to.
WorkerScheduling ==
    /\ WF_vars(LobbyStart)
    /\ WF_vars(LobbyRecv)
    /\ WF_vars(\E w \in Workers : LobbySend(w))
    /\ WF_vars(LobbyExit)
    /\ WF_vars(\E w \in Workers : WorkerExit(w))
    /\ WF_vars(\E w \in Workers : WorkerFinish(w))
    /\ WF_vars(\E t \in Tasks, w \in Workers : RetrySend(t, w))
    /\ WF_vars(QueueCount)
    /\ WF_vars(QueueSendBuf)
    /\ WF_vars(QueueSendDirect)
    /\ WF_vars(\E c \in Callers : SdCloseInput(c))
    /\ WF_vars(\E c \in Callers : SdNilInput(c))
    /\ WF_vars(\E c \in Callers : SdWait(c))
    /\ WF_vars(\E c \in Callers : SdCloseWorkers(c))
    /\ WF_vars(\E c \in Callers : SdCloseErr(c))
    /\ WF_vars(WaitLock)
    /\ WF_vars(WaitReturn)

SpecHandoff == Init /\ [][NextWait]_vars /\ WorkerScheduling

\* SpecOrder: the pipeline for pools whose admission queue can hold every
\* task at once
InitOrder ==
    \E lobby \in 0..MaxLobbyOrder, size \in 1..MaxSize, retries \in 0..MaxRetries :
        InitPool(NewPool(lobby, size, retries), [t \in Tasks |-> Opaque])

SpecOrder == InitOrder /\ [][Pipeline]_vars

\* ------------------------------------------------------------------ claims
Admitted(t) == loc[t] \in {"input", "lobby", "exec", "retry", "errwait",
                           "done", "errored", "abandoned"}

ToErrorQueue(t) == loc[t] \in {"errwait", "errored"}

\* executions the code gives an always-failing task under retry ceiling r
Attempts(r) == IF r < 1 THEN 1 ELSE r

\* C3 as stated: under a retry ceiling R >= 0 an always-failing task reaches
\* the error-output queue exactly once, after exactly R+1 executions and with
\* ErrorCount = R+1.
C3_Original ==
    \A t \in Tasks :
        (plan[t] = AlwaysFails /\ cfg.Retries >= 0) =>
            /\ delivered[t] <= 1
            /\ loc[t] /= "done"
            /\ execs[t] <= cfg.Retries + 1
            /\ ToErrorQueue(t) =>
                  /\ execs[t] = cfg.Retries + 1
                  /\ ErrorCount(hdr[t]) = cfg.Retries + 1
            /\ (spc["A"] = "done" /\ Admitted(t)) => delivered[t] = 1

\* C3 amended: under a retry ceiling R >= 0 an always-failing task reaches the
\* error-output queue exactly once, after exactly max(R, 1) executions and with
\* ErrorCount = max(R, 1); once Shutdown has returned it has been delivered.
C3_FailingTaskDelivered ==
    \A t \in Tasks :
        (plan[t] = AlwaysFails /\ cfg.Retries >= 0) =>
            /\ delivered[t] <= 1
            /\ loc[t] /= "done"
            /\ execs[t] <= Attempts(cfg.Retries)
            /\ ToErrorQueue(t) =>
                  /\ execs[t] = Attempts(cfg.Retries)
                  /\ ErrorCount(hdr[t]) = Attempts(cfg.Retries)
            /\ (spc["A"] = "done" /\ Admitted(t)) => delivered[t] = 1

C3_Witness ==
    \E t \in Tasks :
        /\ plan[t] = AlwaysFails /\ cfg.Retries = MaxRetries
        /\ loc[t] = "errored" /\ execs[t] = MaxRetries
        /\ spc["A"] = "done"

\* C4 as stated: with a retry ceiling R >= K, a task that fails exactly K times
\* and then succeeds never reaches the error-output queue, completes, and has
\* ErrorCount = K when it succeeds.
C4_Original ==
    \A t \in Tasks :
        (plan[t] >= 0 /\ cfg.Retries >= plan[t]) =>
            /\ ~ToErrorQueue(t)
            /\ loc[t] = "done" => ErrorCount(hdr[t]) = plan[t] /\ execs[t] = plan[t] + 1
            /\ (spc["A"] = "done" /\ Admitted(t)) => loc[t] = "done"

\* C4 amended: the same for a retry ceiling R > K, and for K = 0 under any
\* ceiling (the case K = R >= 1 is excluded).
C4_RetriedTaskSucceeds ==
    \A t \in Tasks :
        (plan[t] >= 0 /\ (plan[t] = 0 \/ cfg.Retries > plan[t])) =>
            /\ ~ToErrorQueue(t)
            /\ loc[t] = "done" => ErrorCount(hdr[t]) = plan[t] /\ execs[t] = plan[t] + 1
            /\ (spc["A"] = "done" /\ Admitted(t)) => loc[t] = "done"

C4_Witness ==
    \E t \in Tasks :
        /\ plan[t] = MaxRetries - 1 /\ cfg.Retries = MaxRetries
        /\ loc[t] = "done" /\ ErrorCount(hdr[t]) = MaxRetries - 1
        /\ spc["A"] = "done"

\* C5: a pool built with a negative Retries value (normalised to -1) never
\* hands a failing task to the error-output queue while the cancellation
\* signal has not fired: every failure is followed by a resubmission.
C5_UnboundedRetries ==
    (cfg.Retries = -1 /\ ~cancelled) => \A t \in Tasks : ~ToErrorQueue(t)

InPipeline(t) == loc[t] \in {"input", "lobby", "exec", "retry", "errwait"}

\* a Queue call that has counted its task (lines 176-178) and not yet sent it
QueueLimbo == IF qpc \in {"send", "blocked"} THEN 1 ELSE 0

AllClosed == inputClosed /\ workersClosed /\ errClosed

\* C2: the dispatch queue and the error-output queue are closed only once the
\* admission queue is closed and the in-flight count of the admitted tasks is
\* zero, no Shutdown call returns before the three closes, and ErroredTask
\* returns the no-task value only when no admitted task is queued, executing,
\* awaiting retry or awaiting error handoff.
C2_ShutdownOrdering ==
    /\ (workersClosed \/ errClosed) =>
          /\ inputClosed
          /\ inflightWG = QueueLimbo
          /\ \A t \in Tasks : ~InPipeline(t)
    /\ \A c \in Callers : spc[c] = "done" => AllClosed
    /\ consPc = "end" => errClosed /\ \A t \in Tasks : ~InPipeline(t)

C2_Witness ==
    /\ consPc = "end"
    /\ spc["A"] = "done" /\ spc["B"] = "done"
    /\ \E t \in Tasks : loc[t] = "errored"
    /\ \E t \in Tasks : loc[t] = "done" /\ ErrorCount(hdr[t]) >= 1

InBody(c) == spc[c] \in {"closeInput", "nilInput", "wait", "closeWorkers", "closeErr"}

\* C7: however many Shutdown calls there are and however they overlap, the
\* close / drain / close / close sequence runs once (no channel is closed
\* twice, no two callers are in the body), and no call returns before it has
\* finished.
C7_ShutdownOnce ==
    /\ sdRuns <= 1
    /\ Cardinality({c \in Callers : InBody(c)}) <= 1
    /\ panicked \notin {"close of closed channel", "close of nil channel"}
    /\ \A c \in Callers : spc[c] = "done" => once = "done" /\ AllClosed

C7_Witness ==
    /\ spc["A"] = "done" /\ spc["B"] = "done"
    /\ sdRuns = 1
    /\ \E t \in Tasks : loc[t] \in {"done", "errored"}

\* C8: a Queue call that starts once Shutdown has closed the admission queue
\* returns at once, enqueues nothing and leaves the in-flight, pending and
\* executing counters unchanged; its task is dropped.
C8_QueueAfterClose ==
    [][(inputClosed /\ qpc = "idle" /\ \E t \in Tasks : loc[t] = "new" /\ loc'[t] /= "new")
        => /\ qpc' = "idle"
           /\ UNCHANGED <<cntVars, inputBuf>>
           /\ \E t \in Tasks : loc[t] = "new" /\ loc'[t] = "dropped"]_vars

\* C9: no task is held by two workers, and a task a worker is executing is
\* nowhere else: not in the admission queue, not with the forwarder, not in a
\* pending retry or error handoff.
C9_MutualExclusion ==
    \A t \in Tasks :
        /\ Cardinality({w \in Workers : wtask[w] = t}) <= 1
        /\ (\E w \in Workers : wtask[w] = t) =>
              /\ loc[t] = "exec"
              /\ lobbyTask /= t
              /\ qtask /= t
              /\ \A i \in 1..Len(inputBuf) : inputBuf[i] /= t

C9_Witness ==
    /\ cancelled
    /\ \E v, w \in Workers : v /= w /\ wpc[v] = "exec" /\ wpc[w] = "exec"
    /\ \E t \in Tasks : loc[t] = "exec" /\ ErrorCount(hdr[t]) >= 1

\* C10: the in-flight counter equals the number of tasks counted by Queue
\* minus the number that reached a terminal outcome (success, delivery to the
\* error queue, abandonment on cancellation), and is not zero while an
\* admitted task is in the admission queue, the dispatch queue, a worker or a
\* pending handoff.
C10_InFlightInvariant ==
    /\ inflightWG = Cardinality({t \in Tasks : InPipeline(t)}) + QueueLimbo
    /\ inFlight = inflightWG

ShutdownCalled == spc["A"] /= "idle"

UnbufferedPool == cfg.LobbySize = 0 /\ cfg.Retries >= 0

\* C1: with LobbySize = 0, Retries >= 0, no Cancel and a consumer that keeps
\* calling ErroredTask, a Shutdown called after the Queue calls have returned
\* eventually returns; then the in-flight counter is 0, every admitted task
\* has succeeded or been returned by ErroredTask, the next ErroredTask call
\* returns the no-task value, and a pending Wait call returns.
C1_GracefulShutdown ==
    /\ (UnbufferedPool /\ ShutdownCalled) ~> (spc["A"] = "done")
    /\ []((UnbufferedPool /\ spc["A"] = "done") =>
             /\ inflightWG = 0 /\ inFlight = 0
             /\ errClosed
             /\ \A t \in Tasks : Admitted(t) => loc[t] \in {"done", "errored"})
    /\ (UnbufferedPool /\ ShutdownCalled) ~> (consPc = "end")
    /\ (UnbufferedPool /\ ShutdownCalled) ~> (waitPc = "done")

\* the part of C1 that does not depend on the forwarder having started:
\* Shutdown returns with everything drained and ErroredTask then returns the
\* no-task value, whether or not a task was queued
ShutdownReturnsDrained ==
    /\ (UnbufferedPool /\ ShutdownCalled) ~> (spc["A"] = "done")
    /\ []((UnbufferedPool /\ spc["A"] = "done") =>
             /\ inflightWG = 0 /\ inFlight = 0
             /\ errClosed
             /\ \A t \in Tasks : Admitted(t) => loc[t] \in {"done", "errored"})
    /\ (UnbufferedPool /\ ShutdownCalled) ~> (consPc = "end")

\* the pending Wait call of C1 returns when at least one task was admitted
\* before Shutdown was called: the unbuffered send of Queue (line 179) then
\* proves that the forwarder had read p.inputQ before Shutdown cleared it
WaitReturnsOnceQueued ==
    (UnbufferedPool /\ ShutdownCalled /\ \E t \in Tasks : Admitted(t))
        ~> (waitPc = "done")

Outcome(t) == loc[t] \in {"done", "errored", "abandoned"}

\* tasks that get their outcome in the step
NewOutcomes == {t \in Tasks : ~Outcome(t) /\ Outcome(t)'}

\* C11: an admitted task gets at most one of success, delivery to the error
\* queue and abandonment; a task that has its outcome is never executed,
\* resubmitted or delivered again; the in-flight counter is decremented at
\* most once per task, in the step that gives the task its outcome; and when
\* Shutdown has returned every admitted task has its outcome.
C11_SingleOutcome ==
    /\ [](\A t \in Tasks :
             /\ delivered[t] <= 1
             /\ delivered[t] = 1 <=> loc[t] = "errored"
             /\ Outcome(t) => \A w \in Workers : wtask[w] /= t)
    /\ [](\A c \in Callers : spc[c] = "done" =>
             \A t \in Tasks : Admitted(t) => Outcome(t))
    /\ [][/\ \A t \in Tasks : Outcome(t) =>
                 /\ loc'[t] = loc[t]
                 /\ execs'[t] = execs[t]
                 /\ hdr'[t] = hdr[t]
                 /\ delivered'[t] = delivered[t]
           /\ inflightWG - inflightWG' <= Cardinality(NewOutcomes)
           /\ inFlight - inFlight' <= Cardinality(NewOutcomes)]_vars

C11_Witness ==
    /\ spc["A"] = "done"
    /\ \E t \in Tasks : loc[t] = "errored" /\ ErrorCount(hdr[t]) = MaxRetries
    /\ \E t \in Tasks : loc[t] = "done" /\ ErrorCount(hdr[t]) >= 1

\* C12: with a retry ceiling R >= 1 the work function is called on one task
\* at most R times, and a task that failed on all R calls is afterwards
\* returned by ErroredTask (no Cancel, a consumer keeps calling ErroredTask).
C12_AttemptBound ==
    /\ [](cfg.Retries >= 1 =>
             \A t \in Tasks :
                 /\ execs[t] <= cfg.Retries
                 /\ \A w \in Workers : wtask[w] = t => execs[t] < cfg.Retries)
    /\ \A t \in Tasks :
          (cfg.Retries >= 1 /\ execs[t] = cfg.Retries /\ ErrorCount(hdr[t]) = cfg.Retries)
              ~> (loc[t] = "errored" /\ delivered[t] = 1)

C12_Witness ==
    /\ cfg.Retries = MaxRetries
    /\ \E t \in Tasks : /\ execs[t] = MaxRetries /\ ErrorCount(hdr[t]) = MaxRetries
                         /\ loc[t] = "errored"
    /\ \E t \in Tasks : /\ execs[t] = MaxRetries /\ ErrorCount(hdr[t]) = MaxRetries - 1
                         /\ loc[t] = "done"

\* C13: with a retry ceiling of 0 the first failure of a task is terminal: the
\* task is handed to the error-output queue after exactly one execution and is
\* never resubmitted to the dispatch queue.
C13_ZeroRetries ==
    /\ [](cfg.Retries = 0 =>
             \A t \in Tasks :
                 /\ execs[t] <= 1
                 /\ loc[t] /= "retry"
                 /\ ErrorCount(hdr[t]) >= 1 =>
                       /\ execs[t] = 1
                       /\ ToErrorQueue(t)
                 /\ (spc["A"] = "done" /\ ErrorCount(hdr[t]) >= 1) => delivered[t] = 1)
    /\ [][cfg.Retries = 0 =>
             \A t \in Tasks : ToErrorQueue(t) => ToErrorQueue(t)' /\ execs'[t] = execs[t]]_vars

C13_Witness ==
    /\ cfg.Retries = 0
    /\ spc["A"] = "done"
    /\ \E t \in Tasks : loc[t] = "errored" /\ execs[t] = 1 /\ plan[t] = MaxRetries
    /\ \E t \in Tasks : loc[t] = "done"

\* C14: the in-flight count of a terminally failed task is decremented only
\* in the step in which an ErroredTask caller receives the task; as long as no
\* caller has received it (and Cancel is not called) the task stays in the
\* error handoff, the in-flight counter is above zero, Shutdown has not
\* returned and has closed neither the dispatch nor the error-output queue.
C14_HandoffNeedsReader ==
    /\ []((\E t \in Tasks : loc[t] = "errwait") =>
             /\ inflightWG >= Cardinality({t \in Tasks : loc[t] = "errwait"})
             /\ inFlight = inflightWG
             /\ ~workersClosed /\ ~errClosed
             /\ \A c \in Callers : spc[c] /= "done")
    /\ [][\A t \in Tasks :
             (loc[t] = "errwait" /\ delivered'[t] = delivered[t]) =>
                 /\ loc'[t] = "errwait"
                 /\ inflightWG' >= Cardinality({u \in Tasks : loc'[u] = "errwait"})]_vars

C14_Witness ==
    /\ \E t \in Tasks : loc[t] = "errwait"
    /\ \A t \in Tasks : loc[t] \in {"errwait", "done", "errored"}
    /\ \E c \in Callers : spc[c] = "wait"
    /\ lobbyPc = "done"
    /\ inflightWG = Cardinality({t \in Tasks : loc[t] = "errwait"})

Abandoned == {t \in Tasks : loc[t] = "abandoned"}

\* C15: once a task has been abandoned on cancellation it stays abandoned and
\* the in-flight counter stays above zero, so no Shutdown call gets past its
\* wait for the drain: none returns and neither the dispatch queue nor the
\* error-output queue is closed.
C15_CancelLeaksCounter ==
    /\ [](Abandoned /= {} =>
             /\ inflightWG >= Cardinality(Abandoned)
             /\ inFlight >= Cardinality(Abandoned)
             /\ ~workersClosed /\ ~errClosed
             /\ \A c \in Callers : spc[c] \notin {"closeWorkers", "closeErr", "done"}
             /\ consPc /= "end")
    /\ [][Abandoned \subseteq Abandoned']_vars

C15_Witness ==
    /\ Abandoned /= {}
    /\ \A t \in Tasks : Outcome(t)
    /\ inflightWG = Cardinality(Abandoned)
    /\ spc["A"] = "wait"
    /\ lobbyPc = "done"

\* the step in which the work function returns on task t
Returns(t) == loc[t] = "exec" /\ execs'[t] = execs[t] + 1

\* C16: an execution that returns an error once the cancellation signal has
\* fired abandons its task: the task is never executed, resubmitted or
\* delivered again and its in-flight count is never decremented; an execution
\* that returns nil after Cancel is a success and is decremented.
C16_FailureAfterCancel ==
    /\ [][\A t \in Tasks :
             (cancelled /\ Returns(t)) =>
                 IF hdr'[t].err
                 THEN /\ loc'[t] = "abandoned"
                      /\ inflightWG' = inflightWG /\ inFlight' = inFlight
                 ELSE /\ loc'[t] = "done"
                      /\ inflightWG' = inflightWG - 1 /\ inFlight' = inFlight - 1]_vars
    /\ [][\A t \in Abandoned :
             /\ loc'[t] = "abandoned"
             /\ execs'[t] = execs[t]
             /\ delivered'[t] = delivered[t]
             /\ inflightWG' >= Cardinality(Abandoned)]_vars
    /\ [](\A t \in Abandoned : delivered[t] = 0 /\ hdr[t].err)

C16_Witness ==
    /\ cancelled
    /\ \E t \in Abandoned : execs[t] = 1
    /\ \E t \in Tasks : loc[t] = "done" /\ execs[t] = 1
    /\ inflightWG = 1

\* C17: a worker whose execution failed goes straight back to its receive on
\* the dispatch queue; with Size = 1 a task awaiting retry is dispatched
\* again to the single worker; and a task the forwarder holds is dispatched
\* whether or not tasks are waiting for an ErroredTask reader.
C17_WorkerNotHeld ==
    /\ [][\A w \in Workers :
             (wpc[w] = "exec" /\ execs'[wtask[w]] = execs[wtask[w]] + 1) =>
                 wpc'[w] = "idle" /\ wtask'[w] = NoTask]_vars
    /\ \A t \in Tasks :
          (cfg.Size = 1 /\ loc[t] = "retry") ~> (loc[t] = "exec")
    /\ \A t \in Tasks :
          (loc[t] = "lobby") ~> (loc[t] = "exec")

C17_Witness ==
    /\ cfg.Size = 1
    /\ \E t \in Tasks : loc[t] = "errwait"
    /\ \E t \in Tasks : loc[t] = "exec" /\ ErrorCount(hdr[t]) >= 1

\* the forwarder has handed t to a worker
Dispatched(t) == loc[t] \in {"exec", "retry", "errwait", "done", "errored", "abandoned"}

\* C18: tasks leave the admission queue in the order they entered it (the
\* client queues the tasks in increasing order): the buffer holds them oldest
\* first, the forwarder holds a task older than all of the buffer, and a task
\* is handed to a worker for its first execution only after every task
\* accepted before it, whatever the LobbySize and the retries in between.
C18_ArrivalOrder ==
    /\ \A i, j \in 1..Len(inputBuf) : i < j => inputBuf[i] < inputBuf[j]
    /\ lobbyTask /= NoTask => \A i \in 1..Len(inputBuf) : lobbyTask < inputBuf[i]
    /\ \A t, u \in Tasks :
          (t < u /\ Admitted(t) /\ Admitted(u) /\ Dispatched(u)) => Dispatched(t)

C18_Witness ==
    /\ cfg.LobbySize = MaxLobbyOrder
    /\ \E t, u \in Tasks :
          /\ t < u
          /\ loc[t] = "retry"
          /\ loc[u] = "exec" /\ execs[u] = 0

\* C19: a Queue call that overlaps a Shutdown call either admits its task or
\* drops it with no counter changed: it never sends on the admission queue
\* once Shutdown has closed it, and never leaves a task counted in flight
\* that is not enqueued.
C19_QueueShutdownRace ==
    /\ panicked /= "send on closed channel"
    /\ qpc /= "blocked"
    /\ \A c \in Callers : spc[c] = "done" => \A t \in Tasks : loc[t] /= "queue"

\* C20: with LobbySize >= 1 a task that Queue placed in the buffer of the
\* admission queue is eventually handed to a worker, however the start of
\* the forwarder interleaves with Queue and Shutdown, and a Shutdown called
\* after the Queue calls eventually returns (no Cancel, fair scheduling, a
\* consumer that keeps calling ErroredTask).
C20_BufferedTaskForwarded ==
    /\ \A t \in Tasks :
          (cfg.LobbySize >= 1 /\ loc[t] = "input") ~> Dispatched(t)
    /\ (cfg.LobbySize >= 1 /\ ShutdownCalled) ~> (spc["A"] = "done")

====
